---- MODULE Spec2Model ----
(***************************************************************************)
(* Medication reminder scheduling and adherence tracking                   *)
(* (backend/medication_reminders: services.py, models.py, router.py).      *)
(*                                                                         *)
(* A datetime is an integer number of clock ticks, TicksPerDay ticks to a  *)
(* calendar day; a date is a day number and a time-of-day a tick within    *)
(* the day.  Python's None is the integer None for optional dates and      *)
(* datetimes.  uuid4 identifiers are fresh integers.                        *)
(***************************************************************************)
EXTENDS Integers, Sequences, FiniteSets, TLC

VARIABLES reminders, logs, settings, disk, now, nextRid, nextLid, nUpdates,
          req, running

vars ==
    <<reminders, logs, settings, disk, now, nextRid, nextLid, nUpdates, req,
      running>>

\* ---------------------------------------------------------------- bounds
MaxReminders == 2
MaxLogs == 2
MaxUpdates == 1
MaxTick == 1
TicksPerDay == 3
NumRequests == 3

\* ------------------------------------------------------------- data model
None == -1

FrequencyType == {"daily", "weekly", "monthly", "as_needed", "custom"}

ReminderStatus == {"active", "completed", "skipped", "paused", "discontinued"}

LogStatus == {"taken", "skipped", "missed"}

Users == {"u1", "u2"}

\* datetime.combine(date, time)
combine(d, t) == d * TicksPerDay + t

\* datetime.date()
dateOf(dt) == dt \div TicksPerDay

\* date.today()
today == dateOf(now)

\* a ReminderCreate body; the text fields take one value each
Body(frequency, times, start_date, end_date) ==
    [medication_name |-> "Metformin", dosage |-> "500mg",
     frequency |-> frequency, reminder_times |-> times,
     start_date |-> start_date, end_date |-> end_date,
     ringtone |-> "default", notes |-> "none"]

\* ReminderCreate bodies offered to create_reminder
ReminderCreate ==
    {Body("daily", <<2, 1>>, 0, None),
     Body("monthly", <<1, 2>>, 1, 0)}

\* ReminderUpdate bodies, as update_data.dict(exclude_unset=True): a record
\* holding exactly the supplied fields
ReminderUpdate ==
    {[medication_name |-> "Aspirin"], [notes |-> "with food"],
     [status |-> "paused", notes |-> "with food"],
     [frequency |-> "daily", reminder_times |-> <<1, 2>>],
     [frequency |-> "as_needed"], [frequency |-> "weekly"],
     [reminder_times |-> <<>>], [end_date |-> 1],
     [status |-> "paused"], [status |-> "active"]}

\* the MedicationReminder built by create_reminder
MedicationReminder(id, user_id, data, t) ==
    [id |-> id, user_id |-> user_id,
     medication_name |-> data.medication_name, dosage |-> data.dosage,
     frequency |-> data.frequency, reminder_times |-> data.reminder_times,
     start_date |-> data.start_date, end_date |-> data.end_date,
     ringtone |-> data.ringtone, notes |-> data.notes,
     status |-> "active", created_at |-> t, updated_at |-> t,
     next_dose_time |-> None,
     total_doses |-> 0, taken_doses |-> 0, missed_doses |-> 0]

\* a log that is always scheduled at the instant of the call
MedicationLogAtCall(id, reminder, user_id, status, t) ==
    [id |-> id, reminder_id |-> reminder.id, user_id |-> user_id,
     scheduled_time |-> t,
     taken_time |-> IF status = "taken" THEN t ELSE None,
     status |-> status, notes |-> "none", created_at |-> t]

\* the MedicationLog built by log_medication_taken
MedicationLog(id, reminder, user_id, status, t) ==
    [id |-> id, reminder_id |-> reminder.id, user_id |-> user_id,
     scheduled_time |-> IF reminder.next_dose_time # None
                        THEN reminder.next_dose_time ELSE t,
     taken_time |-> IF status = "taken" THEN t ELSE None,
     status |-> status, notes |-> "none", created_at |-> t]

\* ------------------------------------------------------------- recurrence
\* indexes of the reminder times whose instant on 'day' is after t
LaterToday(times, day, t) ==
    {i \in 1..Len(times) : combine(day, times[i]) > t}

Min(S) == CHOOSE x \in S : \A y \in S : x <= y

\* the value _update_next_dose_time leaves in next_dose_time for an ACTIVE
\* reminder r at instant t
NextDose(r, t) ==
    LET day == dateOf(t)
        times == r.reminder_times
    IN CASE r.frequency = "daily" ->
              IF LaterToday(times, day, t) # {}
              THEN combine(day, times[Min(LaterToday(times, day, t))])
              ELSE IF Len(times) > 0
                   THEN combine(day + 1, times[1])
                   ELSE r.next_dose_time
         [] r.frequency = "weekly" ->
              IF Len(times) > 0
              THEN combine(day + 7, times[1])
              ELSE r.next_dose_time
         [] r.frequency = "as_needed" -> None
         [] OTHER ->
              IF Len(times) > 0
              THEN combine(day, times[1])
              ELSE r.next_dose_time

\* a recomputation that leaves next_dose_time as it is
update_next_dose_timeKept(rs, id, t) == rs

\* _update_next_dose_time(reminder_id) on the reminder map rs
update_next_dose_time(rs, id, t) ==
    IF id \notin DOMAIN rs \/ rs[id].status # "active"
    THEN rs
    ELSE [rs EXCEPT ![id].next_dose_time = NextDose(rs[id], t)]

\* ------------------------------------------------------------ operations
\* Every mutating call ends with save_data, which writes the three maps to
\* their files and swallows any error: it changes none of the in-memory maps.
\* disk holds the three files and whether the medium can fail; a file is
\* absent, ok with the items written into it, or corrupt
Files == {"data_file", "logs_file", "settings_file"}

Absent == [state |-> "absent", data |-> <<>>]

Corrupt == [state |-> "corrupt", data |-> <<>>]

\* str(datetime), which json.dump(default=str) writes for a datetime: the
\* date and the time of day; None is written as null
str(v) == IF v = None THEN <<>> ELSE <<dateOf(v), v % TicksPerDay>>

\* the datetime the model class parses from its string
parse_datetime(text) ==
    IF text = <<>> THEN None ELSE combine(text[1], text[2])

DatetimeFields ==
    {"created_at", "updated_at", "next_dose_time", "scheduled_time",
     "taken_time"}

\* json.dump of a map of model objects into its file
Dumped(map) ==
    [state |-> "ok",
     data |-> [k \in DOMAIN map |->
                  [f \in DOMAIN map[k] |->
                      IF f \in DatetimeFields THEN str(map[k][f])
                      ELSE map[k][f]]]]

\* the model objects built from the items json.load returns
Loaded(data) ==
    [k \in DOMAIN data |->
        [f \in DOMAIN data[k] |->
            IF f \in DatetimeFields THEN parse_datetime(data[k][f])
            ELSE data[k][f]]]

\* the ways a save can go: every file written; the first open refused and
\* nothing written; a write torn off inside the first, second or third file
SaveOutcomes ==
    {"written", "refused", "torn_data_file", "torn_logs_file",
     "torn_settings_file"}

\* the files after save_data has run on the maps rs, ls, ss
Written(d, rs, ls, ss, outcome) ==
    CASE outcome = "written" ->
            [d EXCEPT !.data_file = Dumped(rs), !.logs_file = Dumped(ls),
                      !.settings_file = Dumped(ss)]
      [] outcome = "refused" -> d
      [] outcome = "torn_data_file" -> [d EXCEPT !.data_file = Corrupt]
      [] outcome = "torn_logs_file" ->
            [d EXCEPT !.data_file = Dumped(rs), !.logs_file = Corrupt]
      [] OTHER ->
            [d EXCEPT !.data_file = Dumped(rs), !.logs_file = Dumped(ls),
                      !.settings_file = Corrupt]

\* a save_data without its try: a failed write raises into the caller
save_data_raisesOnFailure(outcome) == outcome # "written"

\* except Exception: print(...): save_data raises nothing
save_data_raises(outcome) == FALSE

\* save_data() as the last statement before the return of a call: on a
\* sound medium every write succeeds
save_data ==
    \E outcome \in IF disk.failing THEN SaveOutcomes ELSE {"written"} :
        /\ ~ save_data_raises(outcome)
        /\ disk' = Written(disk, reminders', logs', settings', outcome)

\* the maps load_data leaves in memory when it runs at instant t: one
\* try around the three files, whose except clause empties all three maps
load_data(d, t) ==
    IF \E f \in Files : d[f].state = "corrupt"
    THEN [reminders |-> <<>>, logs |-> <<>>, settings |-> <<>>]
    ELSE [reminders |->
              [id \in DOMAIN d.data_file.data |->
                  update_next_dose_time(Loaded(d.data_file.data), id, t)[id]],
          logs |-> Loaded(d.logs_file.data),
          settings |-> Loaded(d.settings_file.data)]

RecalcFields == {"frequency", "reminder_times", "start_date", "end_date", "status"}

\* a patch taken with update_data.dict(): the unsupplied end_date arrives
\* as None and is stored too
ApplyPatchUnset(r, patch) ==
    [f \in DOMAIN r |-> IF f \in DOMAIN patch THEN patch[f]
                        ELSE IF f = "end_date" THEN None ELSE r[f]]

\* the setattr loop of update_reminder
ApplyPatch(r, patch) ==
    [f \in DOMAIN r |-> IF f \in DOMAIN patch THEN patch[f] ELSE r[f]]

\* a delete that empties the log map
RemoveLogsOfAll(ls, id) == <<>>

\* a delete that leaves the log map alone
RemoveLogsOfNone(ls, id) == ls

\* the cascade of delete_reminder over the log map
RemoveLogsOf(ls, id) ==
    [l \in {k \in DOMAIN ls : ls[k].reminder_id # id} |-> ls[l]]

\* counter updates that count the dose in total_doses only when taken
CountDoseTakenOnly(r, status) ==
    [r EXCEPT !.total_doses = IF status = "taken" THEN @ + 1 ELSE @,
              !.taken_doses = IF status = "taken" THEN @ + 1 ELSE @,
              !.missed_doses = IF status = "missed" THEN @ + 1 ELSE @]

\* the counter updates of log_medication_taken
CountDose(r, status) ==
    [r EXCEPT !.total_doses = @ + 1,
              !.taken_doses = IF status = "taken" THEN @ + 1 ELSE @,
              !.missed_doses = IF status = "missed" THEN @ + 1 ELSE @]

\* a request slot of the HTTP layer before any request has arrived
Idle ==
    [r \in 1..NumRequests |->
        [pc |-> "idle", status |-> "", tmp |-> 0, overlapped |-> FALSE]]

create_reminder(data, user_id) ==
    /\ nextRid <= MaxReminders
    /\ LET id == nextRid
           reminder == MedicationReminder(id, user_id, data, now)
           \* the recurrence is computed before the reminder is stored
           computed == update_next_dose_time(reminders, id, now)
       IN /\ reminders' = (id :> reminder) @@ computed
    /\ nextRid' = nextRid + 1
    /\ UNCHANGED <<settings, logs, now, nextLid, nUpdates, req, running>>
    /\ save_data

update_reminder(id, patch) ==
    /\ nUpdates < MaxUpdates
    /\ UNCHANGED <<settings, logs, now, nextRid, nextLid, req, running>>
    /\ IF id \notin DOMAIN reminders
       THEN UNCHANGED <<reminders, nUpdates, disk>>
       ELSE LET patched == [ApplyPatch(reminders[id], patch)
                                EXCEPT !.updated_at = now]
                stored == [reminders EXCEPT ![id] = patched]
            IN /\ reminders' = IF DOMAIN patch \cap RecalcFields # {}
                               THEN update_next_dose_time(stored, id, now)
                               ELSE stored
               /\ nUpdates' = nUpdates + 1
               /\ save_data

delete_reminder(id) ==
    /\ UNCHANGED <<settings, now, nextRid, nextLid, nUpdates, req, running>>
    /\ IF id \in DOMAIN reminders
       THEN /\ reminders' = [i \in DOMAIN reminders \ {id} |-> reminders[i]]
            /\ logs' = RemoveLogsOf(logs, id)
            /\ save_data
       ELSE UNCHANGED <<reminders, logs, disk>>

\* a test that refuses only an id that is not stored
NotStored(rs, id, user_id) == id \notin DOMAIN rs

\* not reminder or reminder.user_id != user_id, in log_medication_taken
NotOwned(rs, id, user_id) ==
    id \notin DOMAIN rs \/ rs[id].user_id # user_id

log_medication_taken(id, user_id, status) ==
    /\ nextLid <= MaxLogs
    /\ UNCHANGED <<settings, now, nextRid, nUpdates, req, running>>
    /\ IF NotOwned(reminders, id, user_id)
       THEN UNCHANGED <<reminders, logs, nextLid, disk>>
       ELSE LET log == MedicationLog(nextLid, reminders[id], user_id, status, now)
                counted == [reminders EXCEPT ![id] = CountDose(@, status)]
            IN /\ logs' = (nextLid :> log) @@ logs
               /\ reminders' = update_next_dose_time(counted, id, now)
               /\ nextLid' = nextLid + 1
               /\ save_data

\* status strings a client may send: the three of LogStatus and another one
StatusStrings == LogStatus \cup {"done"}

\* a handler that passes every status string on to the service
AnyStatus(status) == TRUE

\* status in ["taken", "skipped", "missed"]
ValidStatus(status) == status \in LogStatus

\* POST /reminders/{reminder_id}/log: HTTP 400 for a status that is not
\* valid, before the service is called; the 404 of a log the service
\* refuses changes nothing either
log_medication(reminder_id, status, user_id) ==
    IF ~ ValidStatus(status)
    THEN UNCHANGED vars
    ELSE log_medication_taken(reminder_id, user_id, status)

\* the HTTP status code of log_medication
log_medication_returns(reminder_id, status, user_id) ==
    IF ~ ValidStatus(status) THEN 400
    ELSE IF NotOwned(reminders, reminder_id, user_id)
         THEN 404
         ELSE 200

\* get_reminder(reminder_id): the Optional result as a set, {} for None
get_reminder(id) ==
    IF id \in DOMAIN reminders THEN {reminders[id]} ELSE {}

\* the Optional result of update_reminder(id, patch), read after the call
update_reminder_returns(id) ==
    IF id \in DOMAIN reminders THEN {reminders'[id]} ELSE {}

\* a delete that reports success whatever the id
delete_reminder_returnsTrue(id) == TRUE

\* the bool result of delete_reminder(id)
delete_reminder_returns(id) == id \in DOMAIN reminders

\* a handler test that answers 404 only for an id that is not stored
ReminderFoundAnyOwner(reminder_id, user_id) ==
    get_reminder(reminder_id) # {}

\* the negation of 'not reminder or reminder.user_id != user_id' in the
\* handlers of /reminders/{reminder_id}
ReminderFound(reminder_id, user_id) ==
    \E reminder \in get_reminder(reminder_id) : reminder.user_id = user_id

\* GET /reminders/{reminder_id}: a read
router_get_reminder(reminder_id, user_id) == UNCHANGED vars

\* the HTTP status code of GET /reminders/{reminder_id}
router_get_reminder_returns(reminder_id, user_id) ==
    IF ReminderFound(reminder_id, user_id) THEN 200 ELSE 404

\* PUT /reminders/{reminder_id}: HTTP 404 before the service is called
router_update_reminder(reminder_id, update_data, user_id) ==
    IF ReminderFound(reminder_id, user_id)
    THEN update_reminder(reminder_id, update_data)
    ELSE UNCHANGED vars

\* the HTTP status code of PUT /reminders/{reminder_id}
router_update_reminder_returns(reminder_id, user_id) ==
    IF ReminderFound(reminder_id, user_id) THEN 200 ELSE 404

\* DELETE /reminders/{reminder_id}: HTTP 404 before the service is called
router_delete_reminder(reminder_id, user_id) ==
    IF ReminderFound(reminder_id, user_id)
    THEN delete_reminder(reminder_id)
    ELSE UNCHANGED vars

\* the HTTP status code of DELETE /reminders/{reminder_id}
router_delete_reminder_returns(reminder_id, user_id) ==
    IF ReminderFound(reminder_id, user_id) THEN 200 ELSE 404

\* the wall clock advances between calls
Tick ==
    /\ now < MaxTick
    /\ now' = now + 1
    /\ UNCHANGED <<disk, settings, reminders, logs, nextRid, nextLid, nUpdates, req,
                   running>>

Ids == 1..MaxReminders

Init ==
    /\ reminders = <<>>
    /\ logs = <<>>
    /\ settings = <<>>
    /\ disk = [failing |-> FALSE, data_file |-> Absent, logs_file |-> Absent,
               settings_file |-> Absent]
    /\ now = 0
    /\ nextRid = 1
    /\ nextLid = 1
    /\ nUpdates = 0
    /\ req = Idle
    /\ running = 0

Next ==
    \/ \E data \in ReminderCreate, u \in Users : create_reminder(data, u)
    \/ \E id \in Ids, patch \in ReminderUpdate : update_reminder(id, patch)
    \/ \E id \in Ids : delete_reminder(id)
    \/ \E id \in Ids, u \in Users, s \in LogStatus : log_medication_taken(id, u, s)
    \/ \E id \in Ids, u \in Users, s \in StatusStrings : log_medication(id, s, u)
    \/ Tick

Spec == Init /\ [][Next]_vars

\* ------------------------------------------------------- the HTTP layer
\* Every request goes through a handler of the router; the user_id a handler
\* receives from its dependency is an input.
NextHttp ==
    \/ \E data \in ReminderCreate, u \in Users : create_reminder(data, u)
    \/ \E id \in Ids, u \in Users : router_get_reminder(id, u)
    \/ \E id \in Ids, patch \in ReminderUpdate, u \in Users :
          router_update_reminder(id, patch, u)
    \/ \E id \in Ids, u \in Users : router_delete_reminder(id, u)
    \/ \E id \in Ids, u \in Users, s \in StatusStrings : log_medication(id, s, u)
    \/ Tick

SpecHttp == Init /\ [][NextHttp]_vars

\* ------------------------------------------------- concurrent log requests
\* NumRequests POST /reminders/{id}/log requests against reminder 1 are in
\* flight at once.  log_medication is a coroutine without an await, so the
\* event loop starts a handler only when no other handler is running and the
\* handler keeps the loop until it returns.  The handler is modelled one
\* statement at a time, the read and the write of each counter apart.
Requests == 1..NumRequests

Target == 1

\* handlers written as plain functions run on a thread pool: a handler
\* starts whether or not another one is running
LoopFreeThreadPool == TRUE

\* the event loop is free to start the next handler
LoopFree == running = 0

SetReq(r, pc, tmp) == req' = [req EXCEPT ![r].pc = pc, ![r].tmp = tmp]

\* a request arrives and waits for the event loop
Arrive(r, status) ==
    /\ req[r].pc = "idle"
    /\ req' = [req EXCEPT ![r].pc = "ready", ![r].status = status,
                          ![r].overlapped = (running # 0)]
    /\ UNCHANGED <<disk, settings, reminders, logs, now, nextRid, nextLid, nUpdates, running>>

\* the event loop starts the handler
Dispatch(r) ==
    /\ req[r].pc = "ready"
    /\ LoopFree
    /\ running' = r
    /\ SetReq(r, "lookup", 0)
    /\ UNCHANGED <<disk, settings, reminders, logs, now, nextRid, nextLid, nUpdates>>

\* reminder = self.reminders.get(reminder_id); owner check
Lookup(r) ==
    /\ req[r].pc = "lookup"
    /\ SetReq(r, IF Target \in DOMAIN reminders
                    /\ reminders[Target].user_id = "u1"
                 THEN "append" ELSE "return", 0)
    /\ UNCHANGED <<disk, settings, reminders, logs, now, nextRid, nextLid, nUpdates, running>>

\* self.logs[log_id] = log
StoreLog(r) ==
    /\ req[r].pc = "append"
    /\ logs' = (nextLid :> MedicationLog(nextLid, reminders[Target], "u1",
                                         req[r].status, now)) @@ logs
    /\ nextLid' = nextLid + 1
    /\ SetReq(r, "load_total", 0)
    /\ UNCHANGED <<disk, settings, reminders, now, nextRid, nUpdates, running>>

\* reminder.total_doses += 1, the read
LoadTotal(r) ==
    /\ req[r].pc = "load_total"
    /\ SetReq(r, "store_total", reminders[Target].total_doses)
    /\ UNCHANGED <<disk, settings, reminders, logs, now, nextRid, nextLid, nUpdates, running>>

\* reminder.total_doses += 1, the write
StoreTotal(r) ==
    /\ req[r].pc = "store_total"
    /\ reminders' = [reminders EXCEPT ![Target].total_doses = req[r].tmp + 1]
    /\ SetReq(r, IF req[r].status \in {"taken", "missed"}
                 THEN "load_count" ELSE "recalc", 0)
    /\ UNCHANGED <<disk, settings, logs, now, nextRid, nextLid, nUpdates, running>>

\* taken_doses += 1 or missed_doses += 1, the read
LoadCount(r) ==
    /\ req[r].pc = "load_count"
    /\ SetReq(r, "store_count",
              IF req[r].status = "taken" THEN reminders[Target].taken_doses
              ELSE reminders[Target].missed_doses)
    /\ UNCHANGED <<disk, settings, reminders, logs, now, nextRid, nextLid, nUpdates, running>>

\* taken_doses += 1 or missed_doses += 1, the write
StoreCount(r) ==
    /\ req[r].pc = "store_count"
    /\ reminders' = IF req[r].status = "taken"
                    THEN [reminders EXCEPT ![Target].taken_doses = req[r].tmp + 1]
                    ELSE [reminders EXCEPT ![Target].missed_doses = req[r].tmp + 1]
    /\ SetReq(r, "recalc", 0)
    /\ UNCHANGED <<disk, settings, logs, now, nextRid, nextLid, nUpdates, running>>

\* self._update_next_dose_time(reminder_id)
Recalc(r) ==
    /\ req[r].pc = "recalc"
    /\ reminders' = update_next_dose_time(reminders, Target, now)
    /\ SetReq(r, "return", 0)
    /\ UNCHANGED <<disk, settings, logs, now, nextRid, nextLid, nUpdates, running>>

\* save_data and the response; the handler gives the loop back
Return(r) ==
    /\ req[r].pc = "return"
    /\ SetReq(r, "done", 0)
    /\ running' = 0
    /\ UNCHANGED <<settings, reminders, logs, now, nextRid, nextLid, nUpdates>>
    /\ save_data

InitLoop ==
    /\ \E data \in ReminderCreate :
          reminders = (Target :> MedicationReminder(Target, "u1", data, 0))
    /\ logs = <<>>
    /\ settings = <<>>
    /\ disk = [failing |-> FALSE, data_file |-> Dumped(reminders),
               logs_file |-> Dumped(logs), settings_file |-> Dumped(settings)]
    /\ now = 0
    /\ nextRid = Target + 1
    /\ nextLid = 1
    /\ nUpdates = 0
    /\ req = Idle
    /\ running = 0

NextLoop ==
    \/ \E r \in Requests, s \in LogStatus : Arrive(r, s)
    \/ \E r \in Requests : Dispatch(r)
    \/ \E r \in Requests : Lookup(r)
    \/ \E r \in Requests : StoreLog(r)
    \/ \E r \in Requests : LoadTotal(r)
    \/ \E r \in Requests : StoreTotal(r)
    \/ \E r \in Requests : LoadCount(r)
    \/ \E r \in Requests : StoreCount(r)
    \/ \E r \in Requests : Recalc(r)
    \/ \E r \in Requests : Return(r)

SpecLoop == InitLoop /\ [][NextLoop]_vars

\* ------------------------------------------------------ calls over the days
\* The same service calls with a clock that moves by days: the calls of day
\* 0 are made at its first tick, before every reminder time of the day, and
\* the calls of a later day of CallDays at its last tick, when no reminder
\* time of the day is still to come.
CallDays == {7, 8, 31}

\* ReminderCreate bodies offered over the days: one that starts on day 0 and
\* has times, one that starts on day 8 and has none
DailyCreate ==
    {Body("daily", <<2, 1>>, 0, None), Body("daily", <<>>, 8, None)}

\* ReminderUpdate bodies offered over the days
DailyUpdate ==
    {[status |-> "paused"], [end_date |-> 7], [frequency |-> "as_needed"]}

\* no call arrives before day d
Sleep(d) ==
    /\ d > today
    /\ now' = combine(d, TicksPerDay - 1)
    /\ UNCHANGED <<reminders, logs, settings, disk, nextRid, nextLid, nUpdates,
                   req, running>>

NextDays ==
    \/ \E data \in DailyCreate, u \in Users : create_reminder(data, u)
    \/ \E id \in Ids, patch \in DailyUpdate : update_reminder(id, patch)
    \/ \E id \in Ids, u \in Users, s \in LogStatus : log_medication_taken(id, u, s)
    \/ \E d \in CallDays : Sleep(d)

SpecDays == Init /\ [][NextDays]_vars

\* ----------------------------------------------------------------- queries
\* The read operations, as functions of the reminder map rs, the log map ls
\* and the instant t at which they are called.  An Optional argument is a
\* set: {} for None, {v} for the value v.

\* datetime.max, the sort key of a reminder that has no next dose
DatetimeMax == 1000000

\* the first 100 logs of a listing are returned
LogLimit == 100

\* list.sort on the values of a dict: key maps each id to its sort key, the
\* dict yields ids in insertion order (ascending), and the sort is stable
RECURSIVE StableSort(_)
StableSort(key) ==
    IF DOMAIN key = {}
    THEN <<>>
    ELSE LET first == CHOOSE i \in DOMAIN key :
                         \A j \in DOMAIN key :
                             key[i] < key[j] \/ (key[i] = key[j] /\ i <= j)
         IN <<first>> \o StableSort([j \in DOMAIN key \ {first} |-> key[j]])

\* sum of the values of a function with a finite domain
RECURSIVE Sum(_)
Sum(f) ==
    IF DOMAIN f = {}
    THEN 0
    ELSE LET i == CHOOSE j \in DOMAIN f : TRUE
         IN f[i] + Sum([j \in DOMAIN f \ {i} |-> f[j]])

\* a key that puts a reminder without next dose first
SortKeyNoneFirst(r) == r.next_dose_time

\* lambda r: r.next_dose_time or datetime.max
SortKey(r) ==
    IF r.next_dose_time # None THEN r.next_dose_time ELSE DatetimeMax

\* a selection that takes the reminders of every user
OwnedByAnyone(rs, user_id) == DOMAIN rs

\* ids of [r for r in self.reminders.values() if r.user_id == user_id]
OwnedBy(rs, user_id) == {id \in DOMAIN rs : rs[id].user_id = user_id}

\* a selection of the user's reminders whatever their status
ActiveOfAnyStatus(rs, user_id) == OwnedBy(rs, user_id)

\* ids of the ACTIVE reminders of user_id
ActiveOf(rs, user_id) ==
    {id \in OwnedBy(rs, user_id) : rs[id].status = "active"}

get_user_reminders(rs, user_id, status) ==
    LET sel == {id \in OwnedBy(rs, user_id) :
                   status = {} \/ rs[id].status \in status}
        order == StableSort([id \in sel |-> SortKey(rs[id])])
    IN [i \in 1..Len(order) |-> rs[order[i]]]

\* GET /logs: the logs of user_id, newest scheduled_time first
get_medication_logs(ls, start_date, end_date, reminder_id, user_id) ==
    LET sel == {l \in DOMAIN ls :
                   /\ ls[l].user_id = user_id
                   /\ reminder_id = {} \/ ls[l].reminder_id \in reminder_id
                   /\ start_date = {}
                          \/ \A d \in start_date :
                                 dateOf(ls[l].scheduled_time) >= d
                   /\ end_date = {}
                          \/ \A d \in end_date :
                                 dateOf(ls[l].scheduled_time) <= d}
        order == StableSort([l \in sel |-> 0 - ls[l].scheduled_time])
        n == IF Len(order) < LogLimit THEN Len(order) ELSE LogLimit
    IN [i \in 1..n |-> ls[order[i]]]

\* a check that finds a dose on every day
has_dose_todayAlways(r, target_date) == TRUE

has_dose_today(r, target_date) ==
    IF r.start_date > target_date
    THEN FALSE
    ELSE IF r.end_date # None /\ r.end_date < target_date
    THEN FALSE
    ELSE r.frequency # "as_needed"

\* a percentage (taken / total) * 100 as the exact fraction num / den
Percent(taken, total) ==
    IF total = 0 THEN [num |-> 0, den |-> 1]
    ELSE [num |-> 100 * taken, den |-> total]

\* logs of reminder id scheduled on a day from 'first' to 'last'
LogsBetween(ls, id, first, last) ==
    {l \in DOMAIN ls :
        /\ ls[l].reminder_id = id
        /\ first <= dateOf(ls[l].scheduled_time)
        /\ dateOf(ls[l].scheduled_time) <= last}

WithStatus(ls, S, status) == {l \in S : ls[l].status = status}

calculate_adherence(rs, ls, t, user_id, days) ==
    LET end_date == dateOf(t)
        start_date == end_date - days
        active == ActiveOf(rs, user_id)
        period(id) == LogsBetween(ls, id, start_date, end_date)
        total_scheduled == Sum([id \in active |-> Cardinality(period(id))])
        total_taken ==
            Sum([id \in active |->
                    Cardinality(WithStatus(ls, period(id), "taken"))])
    IN Percent(total_taken, total_scheduled)

get_reminder_stats(rs, ls, t, user_id) ==
    LET day == dateOf(t)
        active == ActiveOf(rs, user_id)
        todays(id) == LogsBetween(ls, id, day, day)
        completed_today ==
            Sum([id \in active |->
                    Cardinality(WithStatus(ls, todays(id), "taken"))])
        missed_today ==
            Sum([id \in active |->
                    Cardinality(WithStatus(ls, todays(id), "missed"))])
        scheduled_today ==
            Sum([id \in active |->
                    IF has_dose_today(rs[id], day)
                    THEN Len(rs[id].reminder_times) ELSE 0])
        pending_today == scheduled_today - completed_today
    IN [total_reminders |-> Cardinality(OwnedBy(rs, user_id)),
        active_reminders |-> Cardinality(active),
        completed_today |-> completed_today,
        pending_today |-> IF pending_today > 0 THEN pending_today ELSE 0,
        missed_today |-> missed_today,
        weekly_adherence |-> calculate_adherence(rs, ls, t, user_id, 7),
        monthly_adherence |-> calculate_adherence(rs, ls, t, user_id, 30)]

\* _convert_to_response: the reminder with its completion rate; dates and
\* times become ISO strings, which order as the values they print
convert_to_response(r) ==
    [f \in DOMAIN r \cup {"completion_rate"} |->
        IF f = "completion_rate"
        THEN Percent(r.taken_doses, r.total_doses)
        ELSE r[f]]

\* lambda r: r.next_dose_time or "23:59": the string "23:59" sorts after
\* every ISO datetime string
ScheduleKey(r) ==
    IF r.next_dose_time # None THEN r.next_dose_time ELSE DatetimeMax

get_today_schedule(rs, ls, t, user_id) ==
    LET day == dateOf(t)
        sel == {id \in DOMAIN rs :
                   /\ rs[id].user_id = user_id
                   /\ rs[id].status = "active"
                   /\ rs[id].start_date <= day
                   /\ rs[id].end_date = None \/ rs[id].end_date >= day
                   /\ has_dose_today(rs[id], day)}
        order == StableSort([id \in sel |-> ScheduleKey(rs[id])])
        todays(id) == LogsBetween(ls, id, day, day)
    IN [date |-> day,
        reminders |-> [i \in 1..Len(order) |-> convert_to_response(rs[order[i]])],
        total_medications |-> Len(order),
        taken_today |->
            Sum([id \in sel |->
                    Cardinality(WithStatus(ls, todays(id), "taken"))]),
        pending_today |->
            Sum([id \in sel |->
                    Cardinality(LaterToday(rs[id].reminder_times, day, t))]),
        missed_today |->
            Sum([id \in sel |->
                    Cardinality(WithStatus(ls, todays(id), "missed"))])]

\* ---------------------------------------------------- notification settings
DefaultAdvanceMinutes == 5

\* NotificationSettings(user_id=user_id): the record with every default
NotificationSettings(user_id) ==
    [user_id |-> user_id, enable_notifications |-> TRUE,
     sound_enabled |-> TRUE, vibration_enabled |-> TRUE,
     reminder_advance_minutes |-> DefaultAdvanceMinutes,
     quiet_hours_enabled |-> FALSE,
     quiet_hours_start |-> None, quiet_hours_end |-> None]

\* NotificationSettingsUpdate bodies, as settings_update.dict(exclude_unset=
\* True): a record holding exactly the supplied fields
NotificationSettingsUpdate ==
    {[enable_notifications |-> FALSE], [enable_notifications |-> TRUE],
     [sound_enabled |-> FALSE],
     [vibration_enabled |-> FALSE, reminder_advance_minutes |-> 10],
     [reminder_advance_minutes |-> DefaultAdvanceMinutes],
     [quiet_hours_enabled |-> TRUE, quiet_hours_start |-> 2,
      quiet_hours_end |-> 0],
     [quiet_hours_start |-> None]}

\* an update that replaces the record: an unsupplied field goes back to its
\* default
ApplySettingsReplace(s, patch) ==
    [f \in DOMAIN s |-> IF f \in DOMAIN patch THEN patch[f]
                        ELSE NotificationSettings(s.user_id)[f]]

\* the setattr loop of update_notification_settings
ApplySettings(s, patch) ==
    [f \in DOMAIN s |-> IF f \in DOMAIN patch THEN patch[f] ELSE s[f]]

\* the settings map once the record of user_id exists
WithSettings(user_id) ==
    IF user_id \notin DOMAIN settings
    THEN (user_id :> NotificationSettings(user_id)) @@ settings
    ELSE settings

get_notification_settings(user_id) ==
    /\ settings' = WithSettings(user_id)
    /\ UNCHANGED <<reminders, logs, now, nextRid, nextLid, nUpdates, req,
                   running>>
    /\ IF user_id \notin DOMAIN settings THEN save_data ELSE UNCHANGED disk

update_notification_settings(user_id, settings_update) ==
    /\ settings' = [WithSettings(user_id) EXCEPT
                       ![user_id] = ApplySettings(@, settings_update)]
    /\ UNCHANGED <<reminders, logs, now, nextRid, nextLid, nUpdates, req,
                   running>>
    /\ save_data

NextSettings ==
    \/ \E u \in Users : get_notification_settings(u)
    \/ \E u \in Users, settings_update \in NotificationSettingsUpdate :
          update_notification_settings(u, settings_update)

SpecSettings == Init /\ [][NextSettings]_vars

\* ------------------------------------------------------- failing medium
\* The service runs on a medium whose writes can fail, and the process can be
\* restarted: a new MedicationReminderService is constructed and load_data
\* fills its maps from the files as they are.
DiskCreate == {Body("daily", <<2, 1>>, 0, None)}

DiskUpdate == {[status |-> "paused"]}

DiskSettingsUpdate == {[sound_enabled |-> FALSE]}

\* MedicationReminderService(): the maps are what load_data reads
Restart ==
    /\ reminders' = load_data(disk, now).reminders
    /\ logs' = load_data(disk, now).logs
    /\ settings' = load_data(disk, now).settings
    /\ UNCHANGED <<disk, now, nextRid, nextLid, nUpdates, req, running>>

InitDisk ==
    /\ reminders = <<>>
    /\ logs = <<>>
    /\ settings = <<>>
    /\ disk = [failing |-> TRUE, data_file |-> Absent, logs_file |-> Absent,
               settings_file |-> Absent]
    /\ now = 0
    /\ nextRid = 1
    /\ nextLid = 1
    /\ nUpdates = 0
    /\ req = Idle
    /\ running = 0

NextDisk ==
    \/ \E data \in DiskCreate : create_reminder(data, "u1")
    \/ \E id \in Ids, patch \in DiskUpdate : update_reminder(id, patch)
    \/ \E id \in Ids : delete_reminder(id)
    \/ \E id \in Ids : log_medication_taken(id, "u1", "taken")
    \/ \E settings_update \in DiskSettingsUpdate :
          update_notification_settings("u1", settings_update)
    \/ Restart

SpecDisk == InitDisk /\ [][NextDisk]_vars

\* ------------------------------------------------------------ properties
Stored == DOMAIN reminders

Scheduled(r) == r.frequency \in {"daily", "weekly", "monthly"} /\ Len(r.reminder_times) > 0

\* the log call finds the reminder and the caller owns it
LogAccepted(id, user_id) == id \in Stored /\ reminders[id].user_id = user_id

\* C1: immediately after create_reminder returns, the stored reminder is
\* ACTIVE, its three counters are 0 and, for DAILY, WEEKLY or MONTHLY with a
\* non-empty list of times, its next_dose_time is not None.
C1_CreateComputesNextDose ==
    [][\A data \in ReminderCreate, u \in Users :
          create_reminder(data, u) =>
              LET r == reminders'[nextRid]
              IN /\ r.status = "active"
                 /\ r.total_doses = 0 /\ r.taken_doses = 0 /\ r.missed_doses = 0
                 /\ (Scheduled(r) => r.next_dose_time # None)]_vars

\* C2: in every reachable state, for every stored reminder, next_dose_time
\* is None exactly when status is not ACTIVE or frequency is AS_NEEDED.
C2_NextDoseNoneIffUnscheduled ==
    \A id \in Stored :
        (reminders[id].next_dose_time = None)
            <=> (reminders[id].status # "active"
                 \/ reminders[id].frequency = "as_needed")

\* C3: each successful dose-logging call increments total_doses by exactly 1
\* and exactly one of taken_doses / missed_doses by exactly 1: taken_doses
\* for 'taken', missed_doses for 'missed' and for 'skipped'.
C3_LogCountsSkippedAsMissed ==
    [][\A id \in Ids, u \in Users, s \in LogStatus :
          (LogAccepted(id, u) /\ log_medication_taken(id, u, s)) =>
              LET r == reminders[id]
                  q == reminders'[id]
              IN /\ q.total_doses = r.total_doses + 1
                 /\ IF s = "taken"
                    THEN /\ q.taken_doses = r.taken_doses + 1
                         /\ q.missed_doses = r.missed_doses
                    ELSE /\ q.missed_doses = r.missed_doses + 1
                         /\ q.taken_doses = r.taken_doses]_vars

AllDone == \A r \in Requests : req[r].pc = "done"

LogsOf(id) == {l \in DOMAIN logs : logs[l].reminder_id = id}

\* the requests whose handler has stored its log / has executed
\* total_doses += 1
Logged == {r \in Requests : req[r].pc \notin {"idle", "ready", "lookup", "append"}}

Counted == {r \in Logged : req[r].pc \notin {"load_total", "store_total"}}

Recomputed(id) == update_next_dose_time(reminders, id, now)[id].next_dose_time

\* C5: for every ACTIVE reminder with frequency DAILY, WEEKLY or MONTHLY and
\* a non-empty list of times, a recomputation of next_dose_time at instant
\* 'now' yields an instant strictly greater than 'now'.
C5_NextDoseStrictlyAfterNow ==
    \A id \in Stored :
        (reminders[id].status = "active" /\ Scheduled(reminders[id]))
            => Recomputed(id) > now

TimeSet(times) == {times[i] : i \in 1..Len(times)}

\* the earliest anchor of today strictly after t, else the earliest
\* time-of-day on the next calendar day
EarliestAnchorAfter(times, t) ==
    LET later == {x \in TimeSet(times) : combine(dateOf(t), x) > t}
    IN IF later # {}
       THEN combine(dateOf(t), Min(later))
       ELSE combine(dateOf(t) + 1, Min(TimeSet(times)))

\* C6: for an ACTIVE DAILY reminder (with times), recomputation at 'now'
\* yields the earliest of today's anchors strictly after 'now', whatever the
\* order of the list, and the earliest time-of-day of the next day when every
\* anchor of today has passed.
C6_DailyPicksEarliestAnchor ==
    \A id \in Stored :
        (/\ reminders[id].status = "active"
         /\ reminders[id].frequency = "daily"
         /\ Len(reminders[id].reminder_times) > 0)
            => Recomputed(id) = EarliestAnchorAfter(reminders[id].reminder_times, now)

\* C7: after delete_reminder(id) on an existing reminder, get_reminder(id)
\* finds nothing, no log with reminder_id = id remains, and the logs of
\* other reminders are left in place, unchanged.
C7_DeleteCascades ==
    [][\A id \in Ids :
          (id \in Stored /\ delete_reminder(id)) =>
              /\ id \notin DOMAIN reminders'
              /\ \A l \in DOMAIN logs' : logs'[l].reminder_id # id
              /\ \A l \in DOMAIN logs :
                     logs[l].reminder_id # id
                         => (l \in DOMAIN logs' /\ logs'[l] = logs[l])]_vars

\* C7 witness: a reminder and a log have been removed (logs leave the map only
\* by the cascade) while a log of a stored reminder remains
C7_Witness ==
    /\ Cardinality(Stored) < nextRid - 1
    /\ Cardinality(DOMAIN logs) < nextLid - 1
    /\ logs # <<>>

\* C8: in every reachable state every stored reminder has
\* taken_doses + missed_doses <= total_doses and no negative counter.
C8_CountersBounded ==
    \A id \in Stored :
        /\ reminders[id].taken_doses + reminders[id].missed_doses
               <= reminders[id].total_doses
        /\ reminders[id].total_doses >= 0
        /\ reminders[id].taken_doses >= 0
        /\ reminders[id].missed_doses >= 0

\* C8 witness: a reminder with a taken and a missed dose logged
C8_Witness ==
    \E id \in Stored :
        /\ reminders[id].taken_doses >= 1
        /\ reminders[id].missed_doses >= 1

\* the fields update_reminder may change for the patch
MayChange(patch) ==
    DOMAIN patch \cup {"updated_at"}
        \cup (IF DOMAIN patch \cap RecalcFields # {} THEN {"next_dose_time"} ELSE {})

\* C9: update_reminder(id, patch) changes only the supplied fields (plus
\* updated_at and, when a schedule field or status is supplied,
\* next_dose_time); every other field of the reminder, id, owner and
\* counters included, every other reminder and every log are unchanged.
C9_UpdateFrame ==
    [][\A id \in Ids, patch \in ReminderUpdate :
          (id \in Stored /\ update_reminder(id, patch)) =>
              /\ DOMAIN reminders' = Stored
              /\ \A f \in DOMAIN patch : reminders'[id][f] = patch[f]
              /\ \A f \in DOMAIN reminders[id] \ MayChange(patch) :
                     reminders'[id][f] = reminders[id][f]
              /\ \A other \in Stored \ {id} : reminders'[other] = reminders[other]
              /\ logs' = logs]_vars

\* C9 witness: an update has renamed one reminder while another reminder and
\* a log are stored
C9_Witness ==
    /\ \E id \in Stored :
          /\ reminders[id].medication_name = "Aspirin"
          /\ reminders[id].total_doses > 0
    /\ Cardinality(Stored) > 1

\* C10: a create or update whose end date is earlier than the start date
\* stores nothing, so every stored reminder with an end_date has
\* end_date >= start_date.
C10_EndNotBeforeStart ==
    \A id \in Stored :
        reminders[id].end_date # None
            => reminders[id].end_date >= reminders[id].start_date

\* C11: get_reminder, update_reminder and delete_reminder called with an id
\* that is not stored complete without raising, return None, None and False,
\* and leave the reminder map, the log map and the settings map as they were.
StoresChange ==
    reminders' # reminders \/ logs' # logs \/ settings' # settings

C11_UnknownIdIsNoOp ==
    \A id \in Ids \ Stored :
        /\ get_reminder(id) = {}
        /\ ENABLED delete_reminder(id)
        /\ ~ ENABLED (delete_reminder(id) /\ StoresChange)
        /\ ~ delete_reminder_returns(id)
        /\ \A patch \in ReminderUpdate :
              /\ nUpdates < MaxUpdates => ENABLED update_reminder(id, patch)
              /\ ~ ENABLED (update_reminder(id, patch) /\ StoresChange)
              /\ ~ ENABLED (update_reminder(id, patch)
                               /\ update_reminder_returns(id) # {})

\* an unknown id next to a stored reminder that has a log
C11_Witness ==
    /\ Ids \ Stored # {}
    /\ \E l \in DOMAIN logs : logs[l].reminder_id \in Stored
    /\ nUpdates < MaxUpdates

\* C12: every owner-scoped query (reminder list, today's schedule, stats, log
\* listing) called for owner A returns and counts only records whose user_id
\* is A: the results are those computed from A's own reminders and logs
\* alone, and no step that changes one of A's reminders or logs (or the
\* clock) is a create, update, log or delete on a reminder of another owner,
\* so such an operation changes none of the results.
StatusFilters == {{}, {"active"}, {"paused"}}

QueryResults(rs, ls, t, A) ==
    [list |-> [f \in StatusFilters |-> get_user_reminders(rs, A, f)],
     schedule |-> get_today_schedule(rs, ls, t, A),
     stats |-> get_reminder_stats(rs, ls, t, A),
     logs |-> [f \in {{}} \cup {{id} : id \in Ids} |->
                  get_medication_logs(ls, {}, {}, f, A)]]

RemindersOf(rs, A) ==
    [id \in {i \in DOMAIN rs : rs[i].user_id = A} |-> rs[id]]

LogsOfUser(ls, A) ==
    [l \in {k \in DOMAIN ls : ls[k].user_id = A} |-> ls[l]]

OnlyOwnRecords ==
    \A A \in Users :
        QueryResults(reminders, logs, now, A)
            = QueryResults(RemindersOf(reminders, A), LogsOfUser(logs, A),
                           now, A)

OtherOwnerOp(A) ==
    \/ \E data \in ReminderCreate, B \in Users \ {A} : create_reminder(data, B)
    \/ \E id \in Stored, patch \in ReminderUpdate :
          reminders[id].user_id # A /\ update_reminder(id, patch)
    \/ \E id \in Stored : reminders[id].user_id # A /\ delete_reminder(id)
    \/ \E id \in Ids, B \in Users \ {A}, st \in LogStatus :
          log_medication_taken(id, B, st)

C12_OwnerIsolation ==
    /\ []OnlyOwnRecords
    /\ [][\A A \in Users :
             (\/ RemindersOf(reminders', A) # RemindersOf(reminders, A)
              \/ LogsOfUser(logs', A) # LogsOfUser(logs, A)
              \/ now' # now)
                 => ~ OtherOwnerOp(A)]_vars

\* each of two owners has a reminder with a logged dose
C12_Witness ==
    \A A \in Users :
        \E l \in DOMAIN logs :
            /\ logs[l].user_id = A
            /\ logs[l].reminder_id \in Stored
            /\ reminders[logs[l].reminder_id].user_id = A

\* C13: the reminder list of an owner holds exactly the owner's reminders,
\* restricted to the status filter when one is given, each once, in ascending
\* order of next_dose_time, the reminders without next_dose_time after all
\* those that have one.
C13_ListSortedByNextDose ==
    \A u \in Users, f \in {{}} \cup {{st} : st \in ReminderStatus} :
        LET res == get_user_reminders(reminders, u, f)
            expected == {id \in Stored :
                            /\ reminders[id].user_id = u
                            /\ f # {} => reminders[id].status \in f}
        IN /\ {res[i].id : i \in DOMAIN res} = expected
           /\ Len(res) = Cardinality(expected)
           /\ \A i \in DOMAIN res : res[i] = reminders[res[i].id]
           /\ \A i, j \in DOMAIN res :
                  i < j =>
                      /\ res[i].next_dose_time = None
                             => res[j].next_dose_time = None
                      /\ res[j].next_dose_time # None
                             => res[i].next_dose_time <= res[j].next_dose_time

\* an owner's older reminder has no next dose and a newer one has, so the
\* list is not in insertion order; a filter leaves one of two reminders out
C13_Witness ==
    \E u \in Users, i, j \in Stored :
        /\ i < j
        /\ reminders[i].user_id = u /\ reminders[j].user_id = u
        /\ reminders[i].next_dose_time = None
        /\ reminders[j].next_dose_time # None
        /\ reminders[i].status # reminders[j].status

\* C14: the log written by a successful logging call has as scheduled_time
\* the next_dose_time the reminder had immediately before the call, or the
\* instant of the call when that was None, and has a taken_time exactly when
\* the status is 'taken'.
C14_LogScheduledAtNextDose ==
    [][\A id \in Ids, u \in Users, s \in LogStatus :
          (LogAccepted(id, u) /\ log_medication_taken(id, u, s)) =>
              LET log == logs'[nextLid]
                  due == reminders[id].next_dose_time
              IN /\ nextLid \notin DOMAIN logs
                 /\ log.reminder_id = id /\ log.user_id = u /\ log.status = s
                 /\ due # None => log.scheduled_time = due
                 /\ due = None => log.scheduled_time = now
                 /\ (log.taken_time # None) <=> (s = "taken")
                 /\ s = "taken" => log.taken_time = now]_vars

\* one log was scheduled at a next_dose_time other than the instant of the
\* call, one at the instant of the call; one is taken, one is not
C14_Witness ==
    \E k, l \in DOMAIN logs :
        /\ logs[k].scheduled_time # logs[k].created_at
        /\ logs[l].scheduled_time = logs[l].created_at
        /\ logs[k].taken_time # None
        /\ logs[l].taken_time = None

\* C15: a stored log is never changed: across every step it stays identical
\* or is removed together with its reminder by delete_reminder; a successful
\* logging call adds exactly one log, and nothing else adds a log.
C15_LogsImmutable ==
    [][/\ \A l \in DOMAIN logs :
             IF l \in DOMAIN logs'
             THEN logs'[l] = logs[l]
             ELSE /\ logs[l].reminder_id \in Stored
                  /\ logs[l].reminder_id \notin DOMAIN reminders'
                  /\ delete_reminder(logs[l].reminder_id)
       /\ \A id \in Ids, u \in Users, s \in LogStatus :
             (LogAccepted(id, u) /\ log_medication_taken(id, u, s)) =>
                 /\ DOMAIN logs \subseteq DOMAIN logs'
                 /\ Cardinality(DOMAIN logs' \ DOMAIN logs) = 1
       /\ (DOMAIN logs' \ DOMAIN logs # {}) =>
             \E id \in Ids, u \in Users, s \in LogStatus :
                 LogAccepted(id, u) /\ log_medication_taken(id, u, s)]_vars

\* the first log went with its reminder, the second is stored with its own,
\* which has been updated since
C15_Witness ==
    /\ 1 \notin DOMAIN logs
    /\ 2 \in DOMAIN logs
    /\ logs[2].reminder_id \in Stored
    /\ nUpdates > 0

\* C16: a logging call whose status is not 'taken', 'skipped' or 'missed' is
\* rejected as a validation error (HTTP 400): the call completes, creates no
\* log and changes no counter and no next_dose_time of any reminder.
C16_InvalidStatusRejected ==
    \A id \in Ids, u \in Users, s \in StatusStrings \ LogStatus :
        /\ log_medication_returns(id, s, u) = 400
        /\ ENABLED log_medication(id, s, u)
        /\ ~ ENABLED (log_medication(id, s, u)
                         /\ (logs' # logs \/ reminders' # reminders))

\* a reminder that has a log and against which a further dose, with a valid
\* status, would be logged
C16_Witness ==
    \E id \in Stored, u \in Users :
        /\ LogAccepted(id, u)
        /\ reminders[id].total_doses = 1
        /\ reminders[id].next_dose_time # None
        /\ nextLid <= MaxLogs
        /\ log_medication_returns(id, "taken", u) = 200

\* C17: the weekly and the monthly adherence of an owner are 100 * taken /
\* all over the logs of the owner's ACTIVE reminders that are scheduled
\* within the trailing 7 and 30 days; the value is 0 when there is no such
\* log and 100 when every such log is 'taken'.
TrailingLogs(u, days) ==
    {l \in DOMAIN logs :
        /\ logs[l].reminder_id \in Stored
        /\ reminders[logs[l].reminder_id].user_id = u
        /\ reminders[logs[l].reminder_id].status = "active"
        /\ dateOf(logs[l].scheduled_time) >= today - days
        /\ dateOf(logs[l].scheduled_time) <= today}

IsAdherence(a, u, days) ==
    LET all == Cardinality(TrailingLogs(u, days))
        taken == Cardinality({l \in TrailingLogs(u, days) :
                                 logs[l].status = "taken"})
    IN /\ a.den > 0
       /\ a.num * all = 100 * taken * a.den
       /\ all = 0 => a.num = 0
       /\ (all > 0 /\ taken = all) => a.num = 100 * a.den

C17_AdherenceOverTrailingDays ==
    \A u \in Users :
        LET stats == get_reminder_stats(reminders, logs, now, u)
        IN /\ IsAdherence(stats.weekly_adherence, u, 7)
           /\ IsAdherence(stats.monthly_adherence, u, 30)

\* an owner whose trailing week holds one log, not taken, and whose trailing
\* month holds that one and an older, taken one: 0 for the week, 50 for the
\* month
C17_Witness ==
    \E u \in Users :
        LET stats == get_reminder_stats(reminders, logs, now, u)
        IN /\ Cardinality(TrailingLogs(u, 7)) = 1
           /\ Cardinality(TrailingLogs(u, 30)) = 2
           /\ stats.weekly_adherence = [num |-> 0, den |-> 1]
           /\ stats.monthly_adherence = [num |-> 100, den |-> 2]

\* C18: after a 'taken' dose has been logged today against an ACTIVE DAILY
\* reminder of an owner, the stats of that owner queried on the same day
\* report completed_today >= 1, whatever next_dose_time the reminder had
\* when the dose was logged.
TakenToday(u) ==
    {l \in DOMAIN logs :
        /\ logs[l].status = "taken"
        /\ dateOf(logs[l].created_at) = today
        /\ logs[l].reminder_id \in Stored
        /\ reminders[logs[l].reminder_id].user_id = u
        /\ reminders[logs[l].reminder_id].status = "active"
        /\ reminders[logs[l].reminder_id].frequency = "daily"}

C18_TakenTodayIsCompleted ==
    \A u \in Users :
        TakenToday(u) # {} =>
            get_reminder_stats(reminders, logs, now, u).completed_today >= 1

\* an ACTIVE DAILY reminder as create_reminder left it: nothing logged,
\* and no update_reminder call has been made
Fresh(id) ==
    /\ reminders[id].status = "active"
    /\ reminders[id].frequency = "daily"
    /\ reminders[id].total_doses = 0
    /\ reminders[id].updated_at = reminders[id].created_at
    /\ nUpdates = 0

\* the reminder has one dose, taken, and a next_dose_time later than the
\* scheduled_time of the log just written
AdvancedPast(id, l) ==
    /\ reminders'[id].taken_doses = 1
    /\ reminders'[id].total_doses = 1
    /\ reminders'[id].next_dose_time # None
    /\ reminders'[id].next_dose_time > logs'[l].scheduled_time

\* C19 as stated: logging 'taken' against a freshly created ACTIVE DAILY
\* reminder gives taken_doses = 1 and total_doses = 1, and next_dose_time
\* after the call is strictly later than the scheduled_time of the log just
\* created.
C19_FirstTakenAdvances ==
    [][\A id \in Ids, u \in Users :
          (LogAccepted(id, u) /\ Fresh(id)
               /\ log_medication_taken(id, u, "taken"))
              => AdvancedPast(id, nextLid)]_vars

\* C19: logging 'taken' against a freshly created ACTIVE DAILY reminder
\* that has at least one reminder time gives taken_doses = 1 and
\* total_doses = 1, and next_dose_time after the call is strictly later than
\* the scheduled_time of the log just created.
C19_FirstTakenAdvancesWithTimes ==
    [][\A id \in Ids, u \in Users :
          (LogAccepted(id, u) /\ Fresh(id)
               /\ Len(reminders[id].reminder_times) > 0
               /\ log_medication_taken(id, u, "taken"))
              => AdvancedPast(id, nextLid)]_vars

\* the first dose of a daily reminder with times, created on day 0, was
\* logged as taken on a later day
C19_Witness ==
    \E id \in Stored, l \in DOMAIN logs :
        /\ logs[l].reminder_id = id
        /\ reminders[id].frequency = "daily"
        /\ reminders[id].status = "active"
        /\ reminders[id].total_doses = 1
        /\ reminders[id].taken_doses = 1
        /\ dateOf(reminders[id].created_at) < dateOf(logs[l].created_at)
        /\ reminders[id].next_dose_time > logs[l].scheduled_time

\* C20: the settings map holds at most one record per owner, under the
\* owner's id.  A get for an owner without record stores the record of
\* default values and nothing else; a get for an owner with a record changes
\* nothing; an update gives the supplied fields their new values and leaves
\* every other field of the owner's record (the default record when there
\* was none) and every other owner's record as they were.
DefaultSettings(u) ==
    [user_id |-> u, enable_notifications |-> TRUE, sound_enabled |-> TRUE,
     vibration_enabled |-> TRUE, reminder_advance_minutes |-> 5,
     quiet_hours_enabled |-> FALSE, quiet_hours_start |-> None,
     quiet_hours_end |-> None]

SettingsBefore(u) ==
    IF u \in DOMAIN settings THEN settings[u] ELSE DefaultSettings(u)

OthersKept(u) ==
    /\ DOMAIN settings' = DOMAIN settings \cup {u}
    /\ \A v \in DOMAIN settings \ {u} : settings'[v] = settings[v]

Patched(u, patch) ==
    /\ OthersKept(u)
    /\ DOMAIN settings'[u] = DOMAIN DefaultSettings(u)
    /\ \A f \in DOMAIN patch : settings'[u][f] = patch[f]
    /\ \A f \in DOMAIN settings'[u] \ DOMAIN patch :
           settings'[u][f] = SettingsBefore(u)[f]

C20_SettingsPerOwner ==
    \A u \in Users :
        /\ u \in DOMAIN settings => settings[u].user_id = u
        /\ ENABLED get_notification_settings(u)
        /\ ~ ENABLED (get_notification_settings(u)
                         /\ ~ (OthersKept(u) /\ settings'[u] = SettingsBefore(u)))
        /\ \A patch \in NotificationSettingsUpdate :
              /\ ENABLED update_notification_settings(u, patch)
              /\ ~ ENABLED (update_notification_settings(u, patch)
                               /\ ~ Patched(u, patch))

\* one owner's record carries the changes of two updates, the other owner's
\* record is the default one
C20_Witness ==
    \E u, v \in DOMAIN settings :
        /\ ~ settings[u].sound_enabled
        /\ settings[u].reminder_advance_minutes = 10
        /\ settings[u].quiet_hours_start = 2
        /\ settings[v] = DefaultSettings(v)

\* C21: for an ACTIVE WEEKLY reminder with a non-empty list of times, a
\* recomputation at 'now' yields the earliest time-of-day of the list, not
\* merely the first listed, on the date seven days after the date of 'now'.
C21_WeeklyEarliestInSevenDays ==
    \A id \in Stored :
        (/\ reminders[id].status = "active"
         /\ reminders[id].frequency = "weekly"
         /\ Len(reminders[id].reminder_times) > 0)
            => Recomputed(id)
                   = combine(today + 7, Min(TimeSet(reminders[id].reminder_times)))

\* C22: for an ACTIVE MONTHLY reminder with a non-empty list of times, a
\* recomputation at 'now' yields the earliest time-of-day of the list on the
\* date 30 days after the date of 'now'.
C22_MonthlyEarliestInThirtyDays ==
    \A id \in Stored :
        (/\ reminders[id].status = "active"
         /\ reminders[id].frequency = "monthly"
         /\ Len(reminders[id].reminder_times) > 0)
            => Recomputed(id)
                   = combine(today + 30, Min(TimeSet(reminders[id].reminder_times)))

\* C23: a recomputation of next_dose_time for a reminder whose list of times
\* is empty yields None, not the value the reminder had before.
C23_EmptyTimesClearNextDose ==
    \A id \in Stored :
        (/\ reminders[id].status = "active"
         /\ Len(reminders[id].reminder_times) = 0)
            => Recomputed(id) = None

\* C24: today's schedule of an owner lists exactly the owner's reminders
\* that are ACTIVE, have start_date <= today and no end_date or an
\* end_date >= today, and whose frequency is not AS_NEEDED, each once;
\* total_medications is the number listed.
Qualifying(u) ==
    {id \in Stored :
        /\ reminders[id].user_id = u
        /\ reminders[id].status = "active"
        /\ reminders[id].start_date <= today
        /\ reminders[id].end_date = None \/ reminders[id].end_date >= today
        /\ reminders[id].frequency # "as_needed"}

C24_ScheduleListsQualifying ==
    \A u \in Users :
        LET sch == get_today_schedule(reminders, logs, now, u)
        IN /\ {sch.reminders[i].id : i \in DOMAIN sch.reminders} = Qualifying(u)
           /\ Len(sch.reminders) = Cardinality(Qualifying(u))
           /\ sch.total_medications = Len(sch.reminders)

\* an owner has a listed reminder next to an ACTIVE one that is left out:
\* ended before today, not yet started, or AS_NEEDED
C24_Witness ==
    \E u \in Users, i, j \in Stored :
        /\ i \in Qualifying(u)
        /\ reminders[j].user_id = u
        /\ reminders[j].status = "active"
        /\ \/ reminders[j].end_date # None /\ reminders[j].end_date < today
           \/ reminders[j].start_date > today /\ today > 0
           \/ reminders[j].frequency = "as_needed" /\ today > 0

\* C25: in today's schedule pending_today is max(0, a - k), where a is the
\* number of today's reminder times of the listed reminders that are still
\* after 'now' and k the number of doses logged 'taken' today for those
\* reminders.
AnchorsAfterNow(u) ==
    Sum([id \in Qualifying(u) |->
            Cardinality({i \in 1..Len(reminders[id].reminder_times) :
                            combine(today, reminders[id].reminder_times[i]) > now})])

TakenLoggedToday(u) ==
    {l \in DOMAIN logs :
        /\ logs[l].reminder_id \in Qualifying(u)
        /\ logs[l].status = "taken"
        /\ dateOf(logs[l].taken_time) = today}

C25_PendingMinusTaken ==
    \A u \in Users :
        LET pending == AnchorsAfterNow(u) - Cardinality(TakenLoggedToday(u))
        IN get_today_schedule(reminders, logs, now, u).pending_today
               = IF pending > 0 THEN pending ELSE 0

\* C26: when the maps are loaded from the three files and exactly one file
\* is corrupt, the other two maps are loaded intact, as they would be read
\* from their own files.
CorruptFiles == {f \in Files : disk[f].state = "corrupt"}

C26_OneCorruptOthersLoad ==
    [][Restart =>
          \A f \in Files :
              CorruptFiles = {f} =>
                  /\ f # "data_file" =>
                         reminders' =
                             [id \in DOMAIN disk.data_file.data |->
                                 update_next_dose_time(
                                     Loaded(disk.data_file.data), id, now)[id]]
                  /\ f # "logs_file" => logs' = Loaded(disk.logs_file.data)
                  /\ f # "settings_file" =>
                         settings' = Loaded(disk.settings_file.data)]_vars

\* C27: when the write of the files fails during create, update, delete, log
\* or settings update, the call still completes and the maps in memory are
\* those the call leaves when the write succeeds.
Calls ==
    {[op |-> "create", data |-> data] : data \in DiskCreate}
        \cup {[op |-> "update", id |-> id, patch |-> patch] :
                 id \in Ids, patch \in DiskUpdate}
        \cup {[op |-> "delete", id |-> id] : id \in Ids}
        \cup {[op |-> "log", id |-> id] : id \in Ids}
        \cup {[op |-> "settings", settings_update |-> settings_update] :
                 settings_update \in DiskSettingsUpdate}

Call(c) ==
    CASE c.op = "create" -> create_reminder(c.data, "u1")
      [] c.op = "update" -> update_reminder(c.id, c.patch)
      [] c.op = "delete" -> delete_reminder(c.id)
      [] c.op = "log" -> log_medication_taken(c.id, "u1", "taken")
      [] OTHER -> update_notification_settings("u1", c.settings_update)

FilesAfter(outcome) ==
    disk' = Written(disk, reminders', logs', settings', outcome)

Memory == <<reminders, logs, settings, nextRid, nextLid, nUpdates>>

C27_FailedWriteKeepsMutation ==
    /\ [](\A c \in Calls :
             ENABLED (Call(c) /\ Memory' # Memory)
                 => \A outcome \in SaveOutcomes :
                        ENABLED (Call(c) /\ Memory' # Memory
                                     /\ FilesAfter(outcome)))
    /\ [][\A c \in Calls :
             (Call(c) /\ ~ FilesAfter("written"))
                 => \E m \in {Memory'} :
                        ENABLED (Call(c) /\ FilesAfter("written")
                                     /\ Memory' = m)]_vars

\* a reminder and its log are in memory while the files do not hold them
C27_Witness ==
    /\ disk.failing
    /\ \E id \in DOMAIN reminders : reminders[id].total_doses = 1
    /\ logs # <<>>
    /\ settings # <<>>
    /\ disk.data_file # Dumped(reminders)
    /\ disk.logs_file # Dumped(logs)
    /\ disk.settings_file # Dumped(settings)

\* C28: in every state reached by create, update, log and delete from the
\* empty stores, each reminder's total_doses is the number of stored logs
\* whose reminder_id is its id, and its taken_doses is the number of those
\* logs whose status is "taken".
LogsOfReminder(id) == {l \in DOMAIN logs : logs[l].reminder_id = id}

C28_CountersMatchLogs ==
    \A id \in Stored :
        /\ reminders[id].total_doses = Cardinality(LogsOfReminder(id))
        /\ reminders[id].taken_doses =
               Cardinality({l \in LogsOfReminder(id) :
                               logs[l].status = "taken"})

\* a reminder with a taken and a skipped dose, after an update
C28_Witness ==
    \E id \in Stored :
        /\ reminders[id].total_doses = 2
        /\ reminders[id].taken_doses = 1
        /\ nUpdates > 0

\* C29: in every reachable state every log's reminder_id names a stored
\* reminder, and the log's user_id is that reminder's user_id.
C29_NoOrphanLog ==
    \A l \in DOMAIN logs :
        /\ logs[l].reminder_id \in Stored
        /\ logs[l].user_id = reminders[logs[l].reminder_id].user_id

\* a reminder was deleted while a log of another reminder is kept
C29_Witness ==
    /\ logs # <<>>
    /\ nextRid > Cardinality(Stored) + 1

\* C30: a get, update, delete or log request made through the HTTP layer by
\* a user who is not the owner of the reminder is answered 404, completes,
\* and changes nothing: the reminders with their counters and next_dose_time
\* and the logs stay as they were, and no log is created.
C30_NonOwnerRequestNotFound ==
    \A id \in Stored : \A u \in Users \ {reminders[id].user_id} :
        /\ router_get_reminder_returns(id, u) = 404
        /\ ~ ENABLED (router_get_reminder(id, u) /\ vars' # vars)
        /\ router_delete_reminder_returns(id, u) = 404
        /\ ENABLED router_delete_reminder(id, u)
        /\ ~ ENABLED (router_delete_reminder(id, u) /\ vars' # vars)
        /\ router_update_reminder_returns(id, u) = 404
        /\ \A patch \in ReminderUpdate :
              /\ ENABLED router_update_reminder(id, patch, u)
              /\ ~ ENABLED (router_update_reminder(id, patch, u)
                               /\ vars' # vars)
        /\ \A s \in LogStatus :
              /\ log_medication_returns(id, s, u) = 404
              /\ nextLid <= MaxLogs => ENABLED log_medication(id, s, u)
              /\ ~ ENABLED (log_medication(id, s, u) /\ vars' # vars)

\* a reminder with a logged dose, still open to an update and a further log
\* by its owner, next to a user who does not own it
C30_Witness ==
    \E id \in Stored, u \in Users :
        /\ reminders[id].user_id # u
        /\ reminders[id].total_doses = 1
        /\ nUpdates < MaxUpdates
        /\ nextLid <= MaxLogs
        /\ router_update_reminder_returns(id, reminders[id].user_id) = 200
        /\ log_medication_returns(id, "taken", reminders[id].user_id) = 200
====
